---- MODULE Spec2Model ----
(***************************************************************************)
(* The native bridge of the Pastor Agenda wrapper: the page posts request  *)
(* envelopes, WebViewBridge.handleMessage dispatches them to capability    *)
(* handlers that suspend at permission prompts and native calls, and       *)
(* sendToWebView answers.  MediaService owns the audio-recording slot.     *)
(* RootLayout and WebViewContainer decide when the splash overlay goes and *)
(* when the page counts as ready; the container makes the bridge object    *)
(* and hands the push token to it.  The edge functions register-device and *)
(* send-notification work on the devices table.  Downloads are reported by *)
(* the bridge's handler and by fileDownloadService.                        *)
(***************************************************************************)
EXTENDS Integers, Sequences, FiniteSets, TLC

\* ------------------------------------------------------------------ bounds
MaxRequests == 2
MaxPermissions == 2
MaxCalls == 3
MaxSettleTimers == 2
MaxRetryTimers == 2
MaxReadyCalls == 3
MaxBridges == 2
MaxIds == 3
MaxClock == 2
MaxRegistrations == 3
MaxDevices == 3

Reqs == 1..MaxRequests
Calls == 1..MaxCalls

\* ------------------------------------------------------------ vocabulary
\* JavaScript's undefined, for an absent field.
Undefined == "undefined"

\* The id a page-side call gives its envelope ('msg_' + Date.now() + '_' + random),
\* and the id of an envelope or payload that has no id field.
PageMessageId(r) == <<"msg", r>>
NoId == <<"undefined">>

Catalog ==
  {"REQUEST_PERMISSIONS", "TAKE_PHOTO", "PICK_IMAGE", "RECORD_AUDIO", "GET_LOCATION",
   "DOWNLOAD_FILE", "SAVE_TO_GALLERY", "SHARE_FILE", "PICK_DOCUMENT", "VIBRATE",
   "SHOW_ALERT", "GET_DEVICE_INFO", "UPDATE_USER_INFO"}

\* The cases of handleMessage's switch.
Registered == Catalog \cup {"OPEN_URL"}

\* Types the injected script posts that the switch does not know.
Unregistered == {"BRIDGE_READY", "GET_PUSH_TOKEN"}

\* The types the injected script offers a promise-returning function for.
PageFunctions ==
  {"REQUEST_PERMISSIONS", "TAKE_PHOTO", "PICK_IMAGE", "RECORD_AUDIO", "GET_LOCATION",
   "DOWNLOAD_FILE", "SHARE_FILE", "VIBRATE", "SHOW_ALERT"}

KnownKinds == {"camera", "microphone", "location", "media_library"}

\* Every kind a page may ask for: the four the gate knows and one it does not.
AllKinds == KnownKinds \cup {"notifications"}

PermissionSets == {P \in SUBSET AllKinds : Cardinality(P) <= MaxPermissions}

\* What a native permission request answers: a status, or it throws.
PermissionAnswers == {"granted", "denied", "undetermined", "throws"}

Bool(b) == IF b THEN "true" ELSE "false"

\* ------------------------------------------------------------------- state
VARIABLES
  envelope,      \* [Reqs -> the envelope request r was posted with]
  pc,            \* [Reqs -> where the handler of request r stands]
  gate,          \* [Reqs -> the requestPermissions call of r's handler]
  invoked,       \* [Reqs -> the native capability calls r's handler has started]
  recording,     \* [Reqs -> the state of handleRecordAudio's Audio.Recording]
  sent,          \* [Reqs -> the sendToWebView calls made on behalf of r, in order]
  nativeInbox,   \* the raw strings queued on the native message-received channel
  pageEvents,    \* the message events dispatched on the page's window
  listeners,     \* the message ids the page has a listener waiting for
  webViewRef,    \* whether webViewRef.current is a mounted page view
  isRecording,   \* MediaService.isRecording
  audioRecording,\* MediaService.audioRecording: null ({}), or {the call that created it}
  call,          \* [Calls -> the MediaService method call c is]
  mpc,           \* [Calls -> where call c stands]
  mgate,         \* [Calls -> the requestPermissions call of a start]
  recorder,      \* [Calls -> the state of the Audio.Recording call c created]
  target,        \* [Calls -> the recording whose native method call c awaits]
  result,        \* [Calls -> what call c returned]
  permissionCall,\* one requestPermissions call taken by itself
  loaded,        \* RootLayout: useFonts reports the fonts loaded
  showSplash,    \* RootLayout.showSplash
  maxSplashTimeout, \* RootLayout.maxSplashTimeout: the timer handle, or null
  maxTimer,      \* the 8-second timer of RootLayout: armed, fired or cleared
  providerReady, \* WebViewReadyProvider.isWebViewReady
  session,       \* the WebViewContainer: not mounted yet, live, or unmounted
  isLoading,     \* WebViewContainer.isLoading
  hasError,      \* WebViewContainer.hasError
  retryCount,    \* WebViewContainer.retryCount
  isWebViewMounted, \* WebViewContainer.isWebViewMounted
  isWebViewReady,\* WebViewContainer.isWebViewReady
  mountTimer,    \* the 100 ms timer of the mounting effect
  watchdog,      \* the 15-second timer of the loading effect
  settleTimers,  \* the pending 500 ms timers of handleLoadEnd, by what each closed over
  retryTimers,   \* the number of pending 2-second timers of handleError
  prompt,        \* whether the 'Loading Error' alert is on screen
  readyCalls,    \* how often onWebViewReady has been invoked
  reload,        \* what became of the last webViewRef.current?.reload()
  rerender,      \* HomeScreen is due a render with a new handleWebViewReady
  issued,        \* the page-side calls made, taken by themselves
  pageListeners, \* the message ids those calls have a listener registered for
  dispatched,    \* the message events dispatched on the window so far
  resolved,      \* [Reqs -> the message events the promise of call r was resolved with]
  bridge,        \* WebViewContainer.bridge: 0 for null, else the n-th WebViewBridge made
  messageCounter,\* WebViewBridge.messageId of the current bridge
  now,           \* what Date.now() returns
  generated,     \* the ids generateMessageId has returned in this session, in order
  pushToken,     \* TokenNotificationProvider.pushToken
  isRegistered,  \* TokenNotificationProvider.isRegistered
  tokenInit,     \* where initializePushNotifications stands
  pushSent,      \* the sendToWebView calls of the push-token effect, in order
  devices,       \* the rows of the devices table
  registration,  \* [Registrations -> a register-device request and where it stands]
  notification,  \* a send-notification request and where it stands
  download       \* a download, what the server did, and what each side reported

bridgeVars == <<envelope, pc, gate, invoked, recording, sent, nativeInbox, pageEvents,
                listeners, webViewRef>>
mediaVars == <<isRecording, audioRecording, call, mpc, mgate, recorder, target, result>>
gateVars == <<permissionCall>>
rootVars == <<loaded, showSplash, maxSplashTimeout, maxTimer, providerReady>>
containerVars == <<session, isLoading, hasError, retryCount, isWebViewMounted,
                   isWebViewReady, mountTimer, watchdog, settleTimers, retryTimers,
                   prompt, readyCalls, reload, rerender>>
readyVars == <<rootVars, containerVars>>
pageVars == <<issued, pageListeners, dispatched, resolved>>
lifeVars == <<bridge, messageCounter, now, generated, pushToken, isRegistered,
              tokenInit, pushSent>>
tableVars == <<devices, registration, notification>>
downloadVars == <<download>>
vars == <<envelope, pc, gate, invoked, recording, sent, nativeInbox, pageEvents,
          listeners, webViewRef, isRecording, audioRecording, call, mpc, mgate,
          recorder, target, result, permissionCall, loaded, showSplash,
          maxSplashTimeout, maxTimer, providerReady, session, isLoading, hasError,
          retryCount, isWebViewMounted, isWebViewReady, mountTimer, watchdog,
          settleTimers, retryTimers, prompt, readyCalls, reload, rerender, issued,
          pageListeners, dispatched, resolved, bridge, messageCounter, now,
          generated, pushToken, isRegistered, tokenInit, pushSent, devices,
          registration, notification, download>>

\* What the steps of each part leave alone.
notBridge == <<mediaVars, gateVars, readyVars, pageVars, lifeVars, tableVars,
  downloadVars>>
notMedia == <<bridgeVars, gateVars, readyVars, pageVars, lifeVars, tableVars,
  downloadVars>>
notGate == <<bridgeVars, mediaVars, readyVars, pageVars, lifeVars, tableVars,
  downloadVars>>
notReady == <<bridgeVars, mediaVars, gateVars, pageVars, lifeVars, tableVars,
  downloadVars>>
notPage == <<bridgeVars, mediaVars, gateVars, readyVars, lifeVars, tableVars,
  downloadVars>>
notLife == <<envelope, pc, gate, invoked, recording, sent, pageEvents, listeners,
             webViewRef, mediaVars, gateVars, readyVars, pageVars, tableVars,
             downloadVars>>
notTable == <<bridgeVars, mediaVars, gateVars, readyVars, pageVars, lifeVars,
             downloadVars>>
notDownload == <<bridgeVars, mediaVars, gateVars, readyVars, pageVars, lifeVars,
                tableVars>>

\* --------------------------------------------------------- permission gate
\* One element of requestPermissions' map: the four known kinds compare the
\* native status with 'granted', any other kind is false without asking.
PermissionResultUnknownGranted(kind, answer) ==
  IF kind \in KnownKinds THEN answer = "granted" ELSE TRUE

PermissionResult(kind, answer) ==
  IF kind \in KnownKinds THEN answer = "granted" ELSE FALSE

\* results.every(result => result), over the settled results <<kind, boolean>>.
EveryResultSome(asked, results) ==
  \E kind \in asked : <<kind, TRUE>> \in results

EveryResult(asked, results) ==
  \A kind \in asked : <<kind, TRUE>> \in results

\* A requestPermissions call: what was asked, the native requests still pending,
\* the results so far, what the native side answered, and what the call returned.
NoGate ==
  [asked |-> {}, pending |-> {}, results |-> {}, answers |-> {}, returned |-> Undefined]

\* The call starts every native request at once (Promise.all over the map); the
\* kinds it does not know are settled false on the spot.
requestPermissionsStart(P) ==
  [asked |-> P,
   pending |-> P \cap KnownKinds,
   results |-> {<<kind, PermissionResult(kind, Undefined)>> : kind \in P \ KnownKinds},
   answers |-> {},
   returned |-> Undefined]

\* One native permission request settles.  A rejection rejects Promise.all, the
\* catch returns false and the other requests no longer matter.
requestPermissionsSettle(g, kind, answer) ==
  LET results == IF answer = "throws" THEN g.results
                 ELSE g.results \cup {<<kind, PermissionResult(kind, answer)>>}
      pending == IF answer = "throws" THEN {} ELSE g.pending \ {kind}
      answers == g.answers \cup {<<kind, answer>>}
  IN [asked |-> g.asked, pending |-> pending, results |-> results, answers |-> answers,
      returned |-> IF answer = "throws" THEN "false"
                   ELSE IF pending = {} THEN Bool(EveryResult(g.asked, results))
                   ELSE Undefined]

\* A call with nothing to wait for returns at once.
requestPermissionsReturn(g) ==
  IF g.pending = {} /\ g.returned = Undefined
    THEN [g EXCEPT !.returned = Bool(EveryResult(g.asked, g.results))]
    ELSE g

\* ------------------------------------------------------------- envelopes
NoEnvelope ==
  [type |-> "none", id |-> NoId,
   data |-> [present |-> FALSE, id |-> NoId, permissions |-> {}]]

\* The payload shapes a page can give: none at all, an object without an id field
\* (what the promise-returning functions build), an object with an id of its own.
DataOwnId(r) == <<"data", r>>

\* The data of a *_RESULT envelope, of the ERROR envelope, of PERMISSIONS_RESULT.
ResultData(success, error) ==
  [success |-> success, error |-> error, type |-> Undefined, granted |-> Undefined]

ErrorData(error, type) ==
  [success |-> Undefined, error |-> error, type |-> type, granted |-> Undefined]

PermissionsData(granted) ==
  [success |-> Undefined, error |-> Undefined, type |-> Undefined, granted |-> granted]

Message(type, data, id) == [type |-> type, data |-> data, id |-> id]

\* The id every handler works with: destructured from the payload.
HandlerId(message) == message.data.id

\* The response type of each handler.
ResultType(type) ==
  CASE type = "REQUEST_PERMISSIONS" -> "PERMISSIONS_RESULT"
    [] type = "TAKE_PHOTO" -> "PHOTO_RESULT"
    [] type = "PICK_IMAGE" -> "IMAGE_PICK_RESULT"
    [] type = "RECORD_AUDIO" -> "AUDIO_RECORD_RESULT"
    [] type = "GET_LOCATION" -> "LOCATION_RESULT"
    [] type = "DOWNLOAD_FILE" -> "DOWNLOAD_RESULT"
    [] type = "SAVE_TO_GALLERY" -> "SAVE_GALLERY_RESULT"
    [] type = "SHARE_FILE" -> "SHARE_RESULT"
    [] type = "PICK_DOCUMENT" -> "DOCUMENT_PICK_RESULT"
    [] type = "VIBRATE" -> "VIBRATE_RESULT"
    [] type = "SHOW_ALERT" -> "ALERT_RESULT"
    [] type = "GET_DEVICE_INFO" -> "DEVICE_INFO_RESULT"
    [] type = "UPDATE_USER_INFO" -> "USER_INFO_UPDATED"
    [] type = "OPEN_URL" -> "OPEN_URL_RESULT"

\* handleUpdateUserInfo answers a failure under a type of its own.
FailureType(type) ==
  IF type = "UPDATE_USER_INFO" THEN "USER_INFO_UPDATE_ERROR" ELSE ResultType(type)

\* The handlers that ask the gate first, and what each asks for.
Gated == {"TAKE_PHOTO", "PICK_IMAGE", "RECORD_AUDIO", "GET_LOCATION", "SAVE_TO_GALLERY"}

RequiredPermission(type) ==
  CASE type = "TAKE_PHOTO" -> "camera"
    [] type = "PICK_IMAGE" -> "media_library"
    [] type = "RECORD_AUDIO" -> "microphone"
    [] type = "GET_LOCATION" -> "location"
    [] type = "SAVE_TO_GALLERY" -> "media_library"

DeniedError(type) ==
  CASE type = "TAKE_PHOTO" -> "Camera permission denied"
    [] type = "PICK_IMAGE" -> "Media library permission denied"
    [] type = "RECORD_AUDIO" -> "Microphone permission denied"
    [] type = "GET_LOCATION" -> "Location permission denied"
    [] type = "SAVE_TO_GALLERY" -> "Media library permission denied"

\* The first native call of each handler that awaits one.
NativeCall(type) ==
  CASE type = "TAKE_PHOTO" -> "launchCameraAsync"
    [] type = "PICK_IMAGE" -> "launchImageLibraryAsync"
    [] type = "RECORD_AUDIO" -> "prepareToRecordAsync"
    [] type = "GET_LOCATION" -> "getCurrentPositionAsync"
    [] type = "DOWNLOAD_FILE" -> "downloadAsync"
    [] type = "SAVE_TO_GALLERY" -> "createAssetAsync"
    [] type = "SHARE_FILE" -> "isAvailableAsync"
    [] type = "PICK_DOCUMENT" -> "getDocumentAsync"
    [] type = "UPDATE_USER_INFO" -> "updateUserInfo"

\* The pickers can come back cancelled, and say so.
Pickers == {"TAKE_PHOTO", "PICK_IMAGE", "PICK_DOCUMENT"}

CancelledError(type) ==
  CASE type = "TAKE_PHOTO" -> "Photo capture cancelled"
    [] type = "PICK_IMAGE" -> "Image selection cancelled"
    [] type = "PICK_DOCUMENT" -> "Document selection cancelled"

\* The handlers that finish without awaiting anything; the first two call into
\* the platform inside their try.
Synchronous == {"VIBRATE", "SHOW_ALERT", "GET_DEVICE_INFO", "OPEN_URL"}
SynchronousCall(type) == IF type = "VIBRATE" THEN "vibrate" ELSE "alert"

\* What a native call can come back with.
NativeOutcomes(type, at) ==
  CASE at = "native" /\ type \in Pickers -> {"ok", "cancelled", "throws"}
    [] at = "native" /\ type = "SHARE_FILE" -> {"ok", "unavailable", "throws"}
    [] OTHER -> {"ok", "throws"}

\* The envelope of handleMessage's default branch.
UnknownTypeResponseDataId(message) ==
  Message("ERROR", ErrorData("Unknown message type", message.type), HandlerId(message))

UnknownTypeResponseGeneric(message) ==
  Message("ERROR", ErrorData("error.message", message.type), message.id)

UnknownTypeResponse(message) ==
  Message("ERROR", ErrorData("Unknown message type", message.type), message.id)

\* The envelope of handleMessage's catch.
CaughtResponse(message) ==
  Message("ERROR", ErrorData("error.message", message.type), message.id)

\* The answers of a handler, all under the id it destructured from the payload.
SuccessResponse(message) ==
  Message(ResultType(message.type), ResultData("true", Undefined), HandlerId(message))

FailureResponse(message, error) ==
  Message(FailureType(message.type), ResultData("false", error), HandlerId(message))

PermissionsResponse(message, granted) ==
  Message("PERMISSIONS_RESULT", PermissionsData(granted), HandlerId(message))

\* ---------------------------------------------------------------- transport
\* What JSON.stringify gives for the envelope of request r, and what crosses the
\* channel when postMessage is handed an object instead of a string.
JSONstringify(r) == [text |-> "json", req |-> r]
StringOfObject == [text |-> "[object Object]", req |-> 0]

\* JSON.parse: the request whose envelope the text holds, or a SyntaxError.
JSONparse(raw) == [throws |-> raw.text # "json", req |-> raw.req]

\* sendToWebView, had its script posted a JSON string of the envelope.
sendToWebViewAsJson(r, message, inbox) ==
  /\ sent' = [sent EXCEPT ![r] = Append(@,
       [type |-> message.type, data |-> message.data, id |-> message.id,
        injected |-> webViewRef])]
  /\ nativeInbox' = IF webViewRef THEN Append(inbox, [text |-> "json", req |-> r])
                                  ELSE inbox
  /\ UNCHANGED <<pageEvents, listeners>>

\* sendToWebView without its test of this.webViewRef.current.
sendToWebViewUnguarded(r, message, inbox) ==
  /\ sent' = [sent EXCEPT ![r] = Append(@,
       [type |-> message.type, data |-> message.data, id |-> message.id,
        injected |-> webViewRef])]
  /\ nativeInbox' = Append(inbox, StringOfObject)
  /\ UNCHANGED <<pageEvents, listeners>>

\* sendToWebView: with a page view, injects a script that calls
\* window.ReactNativeWebView.postMessage on the envelope as an object literal;
\* without one, nothing.  The call is logged with whether it injected.
sendToWebView(r, message, inbox) ==
  /\ sent' = [sent EXCEPT ![r] = Append(@,
       [type |-> message.type, data |-> message.data, id |-> message.id,
        injected |-> webViewRef])]
  /\ nativeInbox' = IF webViewRef THEN Append(inbox, StringOfObject) ELSE inbox
  /\ UNCHANGED <<pageEvents, listeners>>

\* A handler sends its answer and returns.
Answer(r, message, inbox) ==
  /\ sendToWebView(r, message, inbox)
  /\ pc' = [pc EXCEPT ![r] = "done"]

\* ------------------------------------------------------------------ handlers
\* The container's handleUserAuth: from the payload of a USER_AUTH envelope it
\* builds an UPDATE_USER_INFO envelope of userId, userEmail and userToken, with
\* no id on the envelope and none in the payload, and hands it to the bridge.
handleUserAuth(message) ==
  [type |-> "UPDATE_USER_INFO", id |-> NoId,
   data |-> [present |-> TRUE, id |-> NoId, permissions |-> {}]]

\* The envelope WebViewBridge.handleMessage is called with for request r.
Dispatched(r) ==
  IF envelope[r].type = "USER_AUTH" THEN handleUserAuth(envelope[r]) ELSE envelope[r]

\* if (!hasPermission), on what requestPermissions returned.
HasPermissionUnchecked(returned) == TRUE

HasPermission(returned) == returned = "true"

\* A handler past its await of requestPermissions, which returned g.returned.
AfterGate(r, g, inbox) ==
  LET message == envelope[r]
      type == message.type
  IN /\ gate' = [gate EXCEPT ![r] = g]
     /\ IF type = "REQUEST_PERMISSIONS"
          THEN /\ Answer(r, PermissionsResponse(message, g.returned), inbox)
               /\ UNCHANGED <<invoked, recording>>
        ELSE IF ~HasPermission(g.returned)
          THEN /\ Answer(r, FailureResponse(message, DeniedError(type)), inbox)
               /\ UNCHANGED <<invoked, recording>>
        ELSE /\ invoked' = [invoked EXCEPT ![r] = @ \cup {NativeCall(type)}]
             /\ recording' = [recording EXCEPT
                                ![r] = IF type = "RECORD_AUDIO" THEN "created" ELSE @]
             /\ pc' = [pc EXCEPT ![r] = "native"]
             /\ nativeInbox' = inbox
             /\ UNCHANGED <<sent, pageEvents, listeners>>

\* A handler calls requestPermissions(P) and awaits it.
AwaitGate(r, P, inbox) ==
  LET g == requestPermissionsReturn(requestPermissionsStart(P))
  IN IF g.returned # Undefined
       THEN AfterGate(r, g, inbox)
       ELSE /\ gate' = [gate EXCEPT ![r] = g]
            /\ pc' = [pc EXCEPT ![r] = "gate"]
            /\ nativeInbox' = inbox
            /\ UNCHANGED <<invoked, recording, sent, pageEvents, listeners>>

\* WebViewBridge.handleMessage, up to the first await of the handler it picks.
handleMessage(r, inbox) ==
  LET message == Dispatched(r)
      type == message.type
  IN IF type \notin Registered
       THEN /\ Answer(r, UnknownTypeResponse(message), inbox)
            /\ UNCHANGED <<gate, invoked, recording>>
     ELSE IF ~message.data.present
       \* every handler destructures its payload before its own try
       THEN /\ Answer(r, CaughtResponse(message), inbox)
            /\ UNCHANGED <<gate, invoked, recording>>
     ELSE IF type = "REQUEST_PERMISSIONS"
       THEN AwaitGate(r, message.data.permissions, inbox)
     ELSE IF type \in Gated
       THEN AwaitGate(r, {RequiredPermission(type)}, inbox)
     ELSE IF type \in {"VIBRATE", "SHOW_ALERT"}
       THEN /\ invoked' = [invoked EXCEPT ![r] = @ \cup {SynchronousCall(type)}]
            /\ \E outcome \in {"ok", "throws"} :
                 Answer(r, IF outcome = "ok" THEN SuccessResponse(message)
                           ELSE FailureResponse(message, "error.message"), inbox)
            /\ UNCHANGED <<gate, recording>>
     ELSE IF type \in Synchronous
       THEN /\ Answer(r, SuccessResponse(message), inbox)
            /\ UNCHANGED <<gate, invoked, recording>>
     ELSE /\ invoked' = [invoked EXCEPT ![r] = @ \cup {NativeCall(type)}]
          /\ pc' = [pc EXCEPT ![r] = "native"]
          /\ nativeInbox' = inbox
          /\ UNCHANGED <<gate, recording, sent, pageEvents, listeners>>

\* ---------------------------------------------------------- devices table
Registrations == 1..MaxRegistrations

\* The (device_id, platform) pairs and push tokens of the request bodies; an empty
\* token is a body with a required field missing.
DevicePairs == {<<"device-1", "ios">>, <<"device-1", "android">>}
Tokens == {"", "token-1", "token-2"}

\* SQL NULL, and the users a row can belong to: none, or one of two users who
\* share an e-mail address.
SqlNull == "null"
Users ==
  {[user_id |-> SqlNull, user_email |-> SqlNull],
   [user_id |-> "user-1", user_email |-> "a@example.org"],
   [user_id |-> "user-2", user_email |-> "a@example.org"]}

Row(id, pair, token, user, active) ==
  [id |-> id, device_id |-> pair[1], platform |-> pair[2], push_token |-> token,
   user_id |-> user.user_id, user_email |-> user.user_email, is_active |-> active]

PairOf(row) == <<row.device_id, row.platform>>

NoRow ==
  Row(0, <<"", "">>, "", [user_id |-> SqlNull, user_email |-> SqlNull], FALSE)
\* The user of a registration: userId || body.userId || null, and the e-mail
\* likewise.
RegisteringUsers == {user \in Users : user.user_id # "user-2"}

NoResponse == [status |-> 0, success |-> Undefined, deviceId |-> 0]
NoRegistration ==
  [at |-> "idle", pair |-> <<"", "">>, token |-> "",
   user |-> [user_id |-> SqlNull, user_email |-> SqlNull], existingDevice |-> NoRow,
   response |-> NoResponse]

\* UNIQUE(device_id, platform): what the table refuses.
UniqueViolated(table, row) == \E other \in table : PairOf(other) = PairOf(row)

\* The tables send-notification can find: up to MaxDevices rows, one per pair at
\* most, each of any user and active or not.
NotifyPairs ==
  {<<"device-1", "ios">>, <<"device-1", "android">>, <<"device-2", "android">>}

PairId(pair) ==
  CASE pair = <<"device-1", "ios">> -> 1
    [] pair = <<"device-1", "android">> -> 2
    [] pair = <<"device-2", "android">> -> 3

NotifyRows ==
  {Row(PairId(pair), pair, "token", user, active) :
     pair \in NotifyPairs, user \in Users, active \in BOOLEAN}

Tables ==
  {table \in SUBSET NotifyRows :
     /\ Cardinality(table) <= MaxDevices
     /\ \A row, other \in table : PairOf(row) = PairOf(other) => row = other}

\* The bodies of send-notification: each filter given or not, title and body
\* given or not.
Bodies ==
  [userId : {Undefined, "user-1"}, userEmail : {Undefined, "a@example.org"},
   deviceId : {Undefined, "device-1"}, platform : {Undefined, "android"},
   title : {Undefined, "title"}]

NoBody ==
  [userId |-> Undefined, userEmail |-> Undefined, deviceId |-> Undefined,
   platform |-> Undefined, title |-> Undefined]

NotifyResponse(status, count) ==
  [status |-> status, success |-> Bool(status = 200), deviceCount |-> count]

NoNotification ==
  [at |-> "idle", body |-> NoBody, devices |-> {}, messages |-> {},
   response |-> NotifyResponse(0, 0)]

\* The response of the function: 400 for a missing field, 500 for a database
\* error, else success with the id of the row written.
Response(status, row) ==
  [status |-> status, success |-> Bool(status = 200), deviceId |-> row.id]

\* ------------------------------------------------------------------- actions
\* null, for a reference to a recording: a reference is {} or {its creator}.
Null == {}

\* What a MediaService call returns: a MediaResult, nothing yet, or void (cleanup).
MediaResult(success, error, uri) == [success |-> success, error |-> error, uri |-> uri]
NoResult == MediaResult(Undefined, Undefined, Null)

\* The urls a download is asked for, by the last segment of their path, and the
\* file names it is given.
Urls == {"report.pdf", "report", ""}
FileNames == {Undefined, "a.pdf"}

\* FileSystem.downloadAsync: it rejects, or resolves with the HTTP status of the
\* response; getInfoAsync resolves or rejects.
HttpStatuses == {200, 204, 404, 500}
DownloadResponses ==
  {[throws |-> TRUE, status |-> 0]} \cup
  {[throws |-> FALSE, status |-> status] : status \in HttpStatuses}

FileInfoOutcomes == {"ok", "throws"}

DownloadOutcome(success, message, status, fileName) ==
  [success |-> success, error |-> [message |-> message, status |-> status],
   fileName |-> fileName]

NoDownloadResult == DownloadOutcome(Undefined, Undefined, 0, Undefined)
NoDownload ==
  [at |-> "idle", url |-> "", fileName |-> Undefined,
   response |-> [throws |-> FALSE, status |-> 0], info |-> "ok",
   bridgeResult |-> NoDownloadResult, serviceResult |-> NoDownloadResult]

Init ==
  /\ envelope = [r \in Reqs |-> NoEnvelope]
  /\ pc = [r \in Reqs |-> "unsent"]
  /\ gate = [r \in Reqs |-> NoGate]
  /\ invoked = [r \in Reqs |-> {}]
  /\ recording = [r \in Reqs |-> "none"]
  /\ sent = [r \in Reqs |-> <<>>]
  /\ nativeInbox = <<>>
  /\ pageEvents = {}
  /\ listeners = {}
  /\ webViewRef = FALSE
  /\ isRecording = FALSE
  /\ audioRecording = Null
  /\ call = [c \in Calls |-> "none"]
  /\ mpc = [c \in Calls |-> "uncalled"]
  /\ mgate = [c \in Calls |-> NoGate]
  /\ recorder = [c \in Calls |-> "none"]
  /\ target = [c \in Calls |-> Null]
  /\ result = [c \in Calls |-> NoResult]
  /\ permissionCall = NoGate
  /\ loaded = FALSE
  /\ showSplash = TRUE
  /\ maxSplashTimeout = "timeout"
  /\ maxTimer = "armed"
  /\ providerReady = FALSE
  /\ session = "absent"
  /\ isLoading = TRUE
  /\ hasError = FALSE
  /\ retryCount = 0
  /\ isWebViewMounted = FALSE
  /\ isWebViewReady = FALSE
  /\ mountTimer = "idle"
  /\ watchdog = "idle"
  /\ settleTimers = {}
  /\ retryTimers = 0
  /\ prompt = FALSE
  /\ readyCalls = 0
  /\ reload = "none"
  /\ rerender = FALSE
  /\ issued = {}
  /\ pageListeners = {}
  /\ dispatched = {}
  /\ resolved = [r \in Reqs |-> <<>>]
  /\ bridge = 0
  /\ messageCounter = 0
  /\ now = 0
  /\ generated = <<>>
  /\ pushToken = "null"
  /\ isRegistered = FALSE
  /\ tokenInit = "pending"
  /\ pushSent = <<>>
  /\ devices = {}
  /\ registration = [q \in 1..MaxRegistrations |-> NoRegistration]
  /\ notification = NoNotification
  /\ download = NoDownload

\* The page posts its requests one after the other.
NextRequest(r) ==
  /\ webViewRef
  /\ pc[r] = "unsent"
  /\ \A q \in Reqs : q < r => pc[q] # "unsent"

\* One of window.ReactNativeBridge's promise-returning functions: a fresh id, a
\* payload object without an id field, a listener waiting for that id.
PageCall(r) ==
  /\ NextRequest(r)
  /\ \E type \in PageFunctions, P \in PermissionSets :
       /\ type # "REQUEST_PERMISSIONS" => P = {}
       /\ envelope' = [envelope EXCEPT ![r] =
            [type |-> type, id |-> PageMessageId(r),
             data |-> [present |-> TRUE, id |-> NoId, permissions |-> P]]]
  /\ listeners' = listeners \cup {PageMessageId(r)}
  /\ nativeInbox' = Append(nativeInbox, JSONstringify(r))
  /\ pc' = [pc EXCEPT ![r] = "posted"]
  /\ UNCHANGED <<gate, invoked, recording, sent, pageEvents, webViewRef>>
  /\ UNCHANGED notBridge

\* window.ReactNativeBridge.sendMessage(type, data): any type or none (an
\* undefined type leaves the envelope without a type field), any payload (none, or
\* an object with or without an id of the caller's), a fresh id, no listener.
PageSendMessage(r) ==
  /\ NextRequest(r)
  /\ \E type \in (Registered \ {"REQUEST_PERMISSIONS"}) \cup Unregistered
                   \cup {"USER_AUTH", Undefined},
        present \in BOOLEAN, dataId \in {NoId, DataOwnId(r)} :
       /\ ~present => dataId = NoId
       /\ envelope' = [envelope EXCEPT ![r] =
            [type |-> type, id |-> PageMessageId(r),
             data |-> [present |-> present, id |-> dataId, permissions |-> {}]]]
  /\ nativeInbox' = Append(nativeInbox, JSONstringify(r))
  /\ pc' = [pc EXCEPT ![r] = "posted"]
  /\ UNCHANGED <<gate, invoked, recording, sent, pageEvents, listeners, webViewRef>>
  /\ UNCHANGED notBridge

\* The container's handleMessage: parse the raw text and hand the envelope to the
\* bridge, a USER_AUTH envelope through handleUserAuth; text that does not parse
\* is logged and dropped, and so is a USER_AUTH envelope without a payload, whose
\* userData.userId throws inside the same try.
OnMessage ==
  /\ nativeInbox # <<>>
  /\ LET parsed == JSONparse(Head(nativeInbox))
         inbox == Tail(nativeInbox)
     IN IF parsed.throws
          THEN /\ nativeInbox' = inbox
               /\ UNCHANGED <<pc, gate, invoked, recording, sent, pageEvents, listeners>>
        ELSE IF /\ envelope[parsed.req].type = "USER_AUTH"
                /\ ~envelope[parsed.req].data.present
          THEN /\ nativeInbox' = inbox
               /\ pc' = [pc EXCEPT ![parsed.req] = "done"]
               /\ UNCHANGED <<gate, invoked, recording, sent, pageEvents, listeners>>
          ELSE handleMessage(parsed.req, inbox)
  /\ UNCHANGED <<envelope, webViewRef>>
  /\ UNCHANGED notBridge

\* One of the native permission requests of a waiting handler settles.
PermissionSettles(r) ==
  /\ pc[r] = "gate"
  /\ \E kind \in gate[r].pending, answer \in PermissionAnswers :
       LET g == requestPermissionsSettle(gate[r], kind, answer)
       IN IF g.returned # Undefined
            THEN AfterGate(r, g, nativeInbox)
            ELSE /\ gate' = [gate EXCEPT ![r] = g]
                 /\ UNCHANGED <<pc, invoked, recording, sent, nativeInbox, pageEvents,
                                listeners>>
  /\ UNCHANGED <<envelope, webViewRef>>
  /\ UNCHANGED notBridge

\* The native call a handler awaits settles, and the handler runs on to its next
\* await or to its answer.
NativeSettles(r) ==
  /\ pc[r] \in {"native", "native2", "stopping"}
  /\ LET message == Dispatched(r)
         type == message.type
     IN \E outcome \in NativeOutcomes(type, pc[r]) :
          IF outcome = "throws"
            THEN /\ Answer(r, FailureResponse(message, "error.message"), nativeInbox)
                 /\ UNCHANGED <<invoked, recording>>
          ELSE IF outcome = "cancelled"
            THEN /\ Answer(r, FailureResponse(message, CancelledError(type)), nativeInbox)
                 /\ UNCHANGED <<invoked, recording>>
          ELSE IF outcome = "unavailable"
            THEN /\ Answer(r, FailureResponse(message,
                                 "Sharing not available on this device"), nativeInbox)
                 /\ UNCHANGED <<invoked, recording>>
          ELSE IF type = "SHARE_FILE" /\ pc[r] = "native"
            THEN /\ invoked' = [invoked EXCEPT ![r] = @ \cup {"shareAsync"}]
                 /\ pc' = [pc EXCEPT ![r] = "native2"]
                 /\ UNCHANGED <<recording, sent, nativeInbox, pageEvents, listeners>>
          ELSE IF type = "RECORD_AUDIO" /\ pc[r] = "native"
            THEN /\ invoked' = [invoked EXCEPT ![r] = @ \cup {"startAsync"}]
                 /\ recording' = [recording EXCEPT ![r] = "prepared"]
                 /\ pc' = [pc EXCEPT ![r] = "native2"]
                 /\ UNCHANGED <<sent, nativeInbox, pageEvents, listeners>>
          ELSE IF type = "RECORD_AUDIO" /\ pc[r] = "native2"
            \* setTimeout(..., 10000): the handler returns with nothing sent
            THEN /\ recording' = [recording EXCEPT ![r] = "recording"]
                 /\ pc' = [pc EXCEPT ![r] = "timer"]
                 /\ UNCHANGED <<invoked, sent, nativeInbox, pageEvents, listeners>>
          ELSE /\ Answer(r, SuccessResponse(message), nativeInbox)
               /\ recording' = [recording EXCEPT
                                  ![r] = IF type = "RECORD_AUDIO" THEN "stopped" ELSE @]
               /\ UNCHANGED invoked
  /\ UNCHANGED <<envelope, gate, webViewRef>>
  /\ UNCHANGED notBridge

\* handleRecordAudio's 10-second timer fires and asks the recording to stop.
RecordTimerFires(r) ==
  /\ pc[r] = "timer"
  /\ invoked' = [invoked EXCEPT ![r] = @ \cup {"stopAndUnloadAsync"}]
  /\ pc' = [pc EXCEPT ![r] = "stopping"]
  /\ UNCHANGED <<envelope, gate, recording, sent, nativeInbox, pageEvents, listeners,
                 webViewRef>>
  /\ UNCHANGED notBridge

\* The page view is rendered (the ref is set) or taken away (the ref is null).
PageViewChanges ==
  /\ webViewRef' = ~webViewRef
  /\ UNCHANGED <<envelope, pc, gate, invoked, recording, sent, nativeInbox, pageEvents,
                 listeners>>
  /\ UNCHANGED notBridge

Next ==
  \/ \E r \in Reqs : PageCall(r)
  \/ \E r \in Reqs : PageSendMessage(r)
  \/ OnMessage
  \/ \E r \in Reqs : PermissionSettles(r)
  \/ \E r \in Reqs : NativeSettles(r)
  \/ \E r \in Reqs : RecordTimerFires(r)
  \/ PageViewChanges

Spec == Init /\ [][Next]_vars

\* --------------------------------------------------------------- MediaService
\* stopAudioRecording's guard: if (!this.audioRecording || !this.isRecording).
NoActiveRecordingByReference == audioRecording = Null

NoActiveRecording == audioRecording = Null \/ ~isRecording

\* startAudioRecording's guard: if (this.isRecording).
AlreadyRecordingNever == FALSE

AlreadyRecording == isRecording

\* What an awaited recorder method can come back with: it resolves or it rejects.
RecorderOutcomes == {"ok", "throws"}

\* A call returns.
Return(c, value) ==
  /\ result' = [result EXCEPT ![c] = IF call[c] = "cleanup"
                                       THEN MediaResult("void", Undefined, Null)
                                       ELSE value]
  /\ mpc' = [mpc EXCEPT ![c] = "done"]

\* The catch of each method: { success: false, error: error.message }.
ReturnCaughtAsSuccess(c) == Return(c, MediaResult("true", Undefined, Null))

ReturnCaught(c) == Return(c, MediaResult("false", "error.message", Null))

\* The app calls its MediaService methods one after the other, without waiting
\* for the earlier calls to return.
NextCall(c) ==
  /\ mpc[c] = "uncalled"
  /\ \A d \in Calls : d < c => mpc[d] # "uncalled"

\* startAudioRecording, up to its await of requestPermissions(['microphone']).
StartCalled(c) ==
  /\ NextCall(c)
  /\ call' = [call EXCEPT ![c] = "start"]
  /\ mgate' = [mgate EXCEPT ![c] = requestPermissionsStart({"microphone"})]
  /\ mpc' = [mpc EXCEPT ![c] = "gate"]
  /\ UNCHANGED <<isRecording, audioRecording, recorder, target, result>>
  /\ UNCHANGED notMedia

\* stopAudioRecording up to its first await; cleanup is the same call behind the
\* same guard, its result dropped.
StopCalled(c) ==
  /\ NextCall(c)
  /\ \E method \in {"stop", "cleanup"} :
       /\ call' = [call EXCEPT ![c] = method]
       /\ IF NoActiveRecording
            THEN /\ result' = [result EXCEPT ![c] =
                      IF method = "cleanup" THEN MediaResult("void", Undefined, Null)
                      ELSE MediaResult("false", "No active recording", Null)]
                 /\ mpc' = [mpc EXCEPT ![c] = "done"]
                 /\ UNCHANGED target
            ELSE /\ target' = [target EXCEPT ![c] = audioRecording]
                 /\ mpc' = [mpc EXCEPT ![c] = "stopping"]
                 /\ UNCHANGED result
  /\ UNCHANGED <<isRecording, audioRecording, mgate, recorder>>
  /\ UNCHANGED notMedia

\* The microphone request of a start settles; the start runs on to its guard and
\* to its await of prepareToRecordAsync on a new recording.
StartPermissionSettles(c) ==
  /\ mpc[c] = "gate"
  /\ \E answer \in PermissionAnswers :
       LET g == requestPermissionsSettle(mgate[c], "microphone", answer)
       IN /\ mgate' = [mgate EXCEPT ![c] = g]
          /\ IF ~HasPermission(g.returned)
               THEN /\ Return(c, MediaResult("false", "Microphone permission denied", Null))
                    /\ UNCHANGED <<audioRecording, recorder, target>>
             ELSE IF AlreadyRecording
               THEN /\ Return(c, MediaResult("false", "Already recording", Null))
                    /\ UNCHANGED <<audioRecording, recorder, target>>
             ELSE /\ audioRecording' = {c}
                  /\ recorder' = [recorder EXCEPT ![c] = "created"]
                  /\ target' = [target EXCEPT ![c] = {c}]
                  /\ mpc' = [mpc EXCEPT ![c] = "preparing"]
                  /\ UNCHANGED result
  /\ UNCHANGED <<isRecording, call>>
  /\ UNCHANGED notMedia

\* The recorder method a call awaits settles; the call runs on, reading
\* this.audioRecording anew for every later use.
RecorderSettles(c) ==
  /\ mpc[c] \in {"preparing", "starting", "stopping", "status"}
  /\ \E outcome \in RecorderOutcomes, t \in target[c] :
       IF outcome = "throws"
         THEN /\ ReturnCaught(c)
              /\ UNCHANGED <<isRecording, audioRecording, recorder, target>>
       ELSE IF mpc[c] = "preparing"
         THEN /\ recorder' = [recorder EXCEPT ![t] = "prepared"]
              /\ IF audioRecording = Null
                   THEN ReturnCaught(c) /\ UNCHANGED target
                   ELSE /\ target' = [target EXCEPT ![c] = audioRecording]
                        /\ mpc' = [mpc EXCEPT ![c] = "starting"]
                        /\ UNCHANGED result
              /\ UNCHANGED <<isRecording, audioRecording>>
       ELSE IF mpc[c] = "starting"
         THEN /\ recorder' = [recorder EXCEPT ![t] = "recording"]
              /\ isRecording' = TRUE
              /\ Return(c, MediaResult("true", Undefined, Null))
              /\ UNCHANGED <<audioRecording, target>>
       ELSE IF mpc[c] = "stopping"
         THEN /\ recorder' = [recorder EXCEPT ![t] = "stopped"]
              /\ IF audioRecording = Null
                   THEN ReturnCaught(c) /\ UNCHANGED target
                   ELSE /\ target' = [target EXCEPT ![c] = audioRecording]
                        /\ mpc' = [mpc EXCEPT ![c] = "status"]
                        /\ UNCHANGED result
              /\ UNCHANGED <<isRecording, audioRecording>>
       ELSE /\ audioRecording' = Null
            /\ isRecording' = FALSE
            /\ Return(c, MediaResult("true", Undefined, target[c]))
            /\ UNCHANGED <<recorder, target>>
  /\ UNCHANGED <<call, mgate>>
  /\ UNCHANGED notMedia

NextMedia ==
  \/ \E c \in Calls : StartCalled(c)
  \/ \E c \in Calls : StopCalled(c)
  \/ \E c \in Calls : StartPermissionSettles(c)
  \/ \E c \in Calls : RecorderSettles(c)

SpecMedia == Init /\ [][NextMedia]_vars

\* ------------------------------------------------------ requestPermissions
\* requestPermissions(P) by itself, as WebViewBridge and MediaService both have
\* it: called once with any set of kinds, its native requests settling in any
\* order.
PermissionsRequested ==
  /\ permissionCall = NoGate
  /\ \E P \in PermissionSets :
       permissionCall' = requestPermissionsReturn(requestPermissionsStart(P))
  /\ UNCHANGED notGate

PermissionRequestSettles ==
  /\ permissionCall.returned = Undefined
  /\ \E kind \in permissionCall.pending, answer \in PermissionAnswers :
       permissionCall' = requestPermissionsSettle(permissionCall, kind, answer)
  /\ UNCHANGED notGate

NextGate ==
  \/ PermissionsRequested
  \/ PermissionRequestSettles

SpecGate == Init /\ [][NextGate]_vars

\* --------------------------------------------------------- page listeners
\* The message events the page's window can be handed: the text of an object with
\* an id (of a call made, of a call not made yet, of no call at all) or without
\* one, the text of null, and text that is not JSON.
NeverIssued == <<"msg", 0>>

PageEvent(text, id, data) == [text |-> text, id |-> id, data |-> data]

PageEventSet ==
  {PageEvent("json", id, data) :
     id \in {PageMessageId(r) : r \in Reqs} \cup {NeverIssued, NoId},
     data \in {ResultData("true", Undefined), ResultData("false", "error.message")}}
  \cup {PageEvent("null", NoId, ResultData(Undefined, Undefined)),
        PageEvent("not json", NoId, ResultData(Undefined, Undefined))}

\* The listener of a promise-returning function: JSON.parse(event.data) and the
\* read of response.id inside a try whose catch ignores, then
\* if (response.id === messageId).
ListenerResolvesAnyId(event, messageId) == event.text = "json"

ListenerResolves(event, messageId) == event.text = "json" /\ event.id = messageId

\* window.removeEventListener('message', listener), for the listeners that matched.
RemoveEventListenerNever(registered, matched) == registered

RemoveEventListener(registered, matched) == registered \ matched

\* The page side of a promise-returning function, taken by itself: a new message
\* id, and a listener registered for it before the envelope is posted.
PageFunctionCalled(r) ==
  /\ r \notin issued
  /\ issued' = issued \cup {r}
  /\ pageListeners' = pageListeners \cup {PageMessageId(r)}
  /\ UNCHANGED <<dispatched, resolved>>
  /\ UNCHANGED notPage

\* A message event is dispatched on the page's window: every registered listener
\* runs on it, and the ones it matches remove themselves and resolve.
WindowMessage(event) ==
  LET matched == {r \in Reqs : /\ PageMessageId(r) \in pageListeners
                               /\ ListenerResolves(event, PageMessageId(r))}
  IN /\ pageListeners' =
          RemoveEventListener(pageListeners, {PageMessageId(r) : r \in matched})
     /\ resolved' = [r \in Reqs |->
                       IF r \in matched THEN Append(resolved[r], event) ELSE resolved[r]]
     /\ dispatched' = dispatched \cup {event}
     /\ UNCHANGED issued
     /\ UNCHANGED notPage

NextPage ==
  \/ \E r \in Reqs : PageFunctionCalled(r)
  \/ \E event \in PageEventSet : WindowMessage(event)

SpecPage == Init /\ [][NextPage]_vars

\* ---------------------------------------------------------- register-device
\* A request arrives: the body is parsed and validated.
RegisterDeviceCalled(q) ==
  /\ registration[q].at = "idle"
  /\ \E pair \in DevicePairs, token \in Tokens, user \in RegisteringUsers :
       registration' = [registration EXCEPT ![q] =
         IF token = ""
           THEN [@ EXCEPT !.at = "done", !.pair = pair, !.token = token,
                          !.user = user, !.response = Response(400, NoRow)]
           ELSE [@ EXCEPT !.at = "select", !.pair = pair, !.token = token,
                          !.user = user]]
  /\ UNCHANGED <<devices, notification>>
  /\ UNCHANGED notTable

\* select * from devices where device_id = ... and platform = ...
\* .single(): the row, or null with an error the function does not look at.
RegisterDeviceSelects(q) ==
  /\ registration[q].at = "select"
  /\ LET found == {row \in devices : PairOf(row) = registration[q].pair}
     IN registration' = [registration EXCEPT ![q] =
          [@ EXCEPT !.at = "write",
                    !.existingDevice = IF found = {} THEN NoRow
                                       ELSE CHOOSE row \in found : TRUE]]
  /\ UNCHANGED <<devices, notification>>
  /\ UNCHANGED notTable

\* if (existingDevice) update ... where id = existingDevice.id, else insert; then
\* the response.
RegisterDeviceWrites(q) ==
  /\ registration[q].at = "write"
  /\ LET request == registration[q]
         deviceData == Row(q, request.pair, request.token, request.user, TRUE)
     IN IF request.existingDevice # NoRow
          THEN LET updated == [deviceData EXCEPT !.id = request.existingDevice.id]
               IN /\ devices' = {IF row.id = updated.id THEN updated ELSE row :
                                   row \in devices}
                  /\ registration' = [registration EXCEPT ![q] =
                       [@ EXCEPT !.at = "done", !.response = Response(200, updated)]]
        ELSE IF UniqueViolated(devices, deviceData)
          THEN /\ registration' = [registration EXCEPT ![q] =
                    [@ EXCEPT !.at = "done", !.response = Response(500, NoRow)]]
               /\ UNCHANGED devices
          ELSE /\ devices' = devices \cup {deviceData}
               /\ registration' = [registration EXCEPT ![q] =
                    [@ EXCEPT !.at = "done", !.response = Response(200, deviceData)]]
  /\ UNCHANGED notification
  /\ UNCHANGED notTable

NextRegister ==
  \/ \E q \in Registrations : RegisterDeviceCalled(q)
  \/ \E q \in Registrations : RegisterDeviceSelects(q)
  \/ \E q \in Registrations : RegisterDeviceWrites(q)

SpecRegister == Init /\ [][NextRegister]_vars

\* -------------------------------------------------------- send-notification
\* The filter the query is given after .eq('is_active', true): the first of
\* userId, userEmail, deviceId, platform that the body has, or none.
FirstFilterEvery(body, row) ==
  /\ body.userId # Undefined => row.user_id = body.userId
  /\ body.userEmail # Undefined => row.user_email = body.userEmail
  /\ body.deviceId # Undefined => row.device_id = body.deviceId
  /\ body.platform # Undefined => row.platform = body.platform

FirstFilter(body, row) ==
  IF body.userId # Undefined THEN row.user_id = body.userId
  ELSE IF body.userEmail # Undefined THEN row.user_email = body.userEmail
  ELSE IF body.deviceId # Undefined THEN row.device_id = body.deviceId
  ELSE IF body.platform # Undefined THEN row.platform = body.platform
  ELSE TRUE

\* The query: the active rows that pass the filter.
SelectDevices(table, body) == {row \in table : row.is_active /\ FirstFilter(body, row)}

\* devices.map(...): one Expo message per selected device.
ExpoMessage(device) ==
  [to |-> device.push_token, userId |-> device.user_id, userEmail |-> device.user_email,
   deviceId |-> device.device_id, platform |-> device.platform]

\* The devices table as a send-notification request finds it.
TableGiven ==
  /\ notification.at = "idle"
  /\ devices = {}
  /\ devices' \in Tables \ {{}}
  /\ UNCHANGED <<registration, notification>>
  /\ UNCHANGED notTable

\* A request arrives: the body is parsed and validated (title and body).
SendNotificationCalled ==
  /\ notification.at = "idle"
  /\ \E body \in Bodies :
       notification' =
         IF body.title = Undefined
           THEN [notification EXCEPT !.at = "done", !.body = body,
                                     !.response = NotifyResponse(400, 0)]
           ELSE [notification EXCEPT !.at = "query", !.body = body]
  /\ UNCHANGED <<devices, registration>>
  /\ UNCHANGED notTable

\* The query runs; with no device the function answers 404.
SendNotificationSelects ==
  /\ notification.at = "query"
  /\ LET selected == SelectDevices(devices, notification.body)
     IN notification' =
          IF selected = {}
            THEN [notification EXCEPT !.at = "done", !.response = NotifyResponse(404, 0)]
            ELSE [notification EXCEPT !.at = "push", !.devices = selected]
  /\ UNCHANGED <<devices, registration>>
  /\ UNCHANGED notTable

\* The messages are posted to the Expo push API in one request; the function
\* answers with devices.length, or 500 when the request or its JSON throws.
\* (The update of last_seen that follows touches no column kept here.)
SendNotificationPushes ==
  /\ notification.at = "push"
  /\ \E outcome \in {"ok", "throws"} :
       notification' =
         [notification EXCEPT
            !.at = "done",
            !.messages = {ExpoMessage(device) : device \in notification.devices},
            !.response = IF outcome = "ok"
                           THEN NotifyResponse(200, Cardinality(notification.devices))
                           ELSE NotifyResponse(500, 0)]
  /\ UNCHANGED <<devices, registration>>
  /\ UNCHANGED notTable

NextNotify ==
  \/ TableGiven
  \/ SendNotificationCalled
  \/ SendNotificationSelects
  \/ SendNotificationPushes

SpecNotify == Init /\ [][NextNotify]_vars

\* ------------------------------------------------------------------ downloads
\* The data of the DOWNLOAD_RESULT the bridge's handler sends: success with the
\* file name it was given whenever downloadAsync resolved, whatever the status;
\* the catch otherwise.
handleDownloadFile(fileName, response) ==
  IF response.throws
    THEN DownloadOutcome("false", "error.message", 0, Undefined)
    ELSE DownloadOutcome("true", Undefined, 0, fileName)

\* generateFileName: the last segment of the url's path, or 'download', with
\* '.bin' appended when it has no dot.
generateFileName(url) ==
  CASE url = "report.pdf" -> "report.pdf"
    [] url = "report" -> "report.bin"
    [] url = "" -> "download.bin"

\* fileDownloadService.downloadFile: success when the status is 200 and
\* getInfoAsync resolved; 'Download failed with status: n' for another status;
\* the catch when downloadAsync or getInfoAsync rejected.
downloadFile(url, fileName, response, info) ==
  LET finalFileName == IF fileName # Undefined THEN fileName ELSE generateFileName(url)
  IN IF response.throws
       THEN DownloadOutcome("false", "error.message", 0, Undefined)
     ELSE IF response.status = 200
       THEN IF info = "throws"
              THEN DownloadOutcome("false", "error.message", 0, Undefined)
              ELSE DownloadOutcome("true", Undefined, 0, finalFileName)
     ELSE DownloadOutcome("false", "Download failed with status", response.status,
                          Undefined)

\* A download of some url under some file name, and what the server and the
\* file system will do with it.
DownloadRequested ==
  /\ download.at = "idle"
  /\ \E url \in Urls, fileName \in FileNames, response \in DownloadResponses,
        info \in FileInfoOutcomes :
       download' = [download EXCEPT !.at = "asked", !.url = url,
                                    !.fileName = fileName, !.response = response,
                                    !.info = info]
  /\ UNCHANGED notDownload

\* The page asks the bridge for it with DOWNLOAD_FILE.
BridgeDownloads ==
  /\ download.at = "asked"
  /\ download.bridgeResult = NoDownloadResult
  /\ download' = [download EXCEPT
       !.bridgeResult = handleDownloadFile(download.fileName, download.response)]
  /\ UNCHANGED notDownload

\* The app asks fileDownloadService for it.
ServiceDownloads ==
  /\ download.at = "asked"
  /\ download.serviceResult = NoDownloadResult
  /\ download' = [download EXCEPT
       !.serviceResult = downloadFile(download.url, download.fileName,
                                      download.response, download.info)]
  /\ UNCHANGED notDownload

NextDownload ==
  \/ DownloadRequested
  \/ BridgeDownloads
  \/ ServiceDownloads

SpecDownload == Init /\ [][NextDownload]_vars

\* --------------------------------------------------------- bridge object
\* The data of the PUSH_TOKEN envelope.
PushTokenData(token, registered) == [token |-> token, isRegistered |-> registered]

\* The push-token effect of WebViewContainer, run with the given values of its
\* dependencies: if (pushToken && isRegistered && bridge) it passes a PUSH_TOKEN
\* envelope without id to sendToWebView, which injects its script if the ref
\* holds a page view and does nothing otherwise.
PushTokenEffect(token, registered, currentBridge) ==
  IF token # "null" /\ registered /\ currentBridge # 0
    THEN /\ pushSent' = Append(pushSent,
              [type |-> "PUSH_TOKEN", data |-> PushTokenData(token, registered),
               id |-> NoId, injected |-> webViewRef])
         /\ nativeInbox' = IF webViewRef THEN Append(nativeInbox, StringOfObject)
                                         ELSE nativeInbox
    ELSE UNCHANGED <<pushSent, nativeInbox>>

\* The bridge effect: new WebViewBridge(webViewRef, onMessage) and setBridge, on
\* mount and again whenever onMessage is a new function, which it is on every
\* render of HomeScreen.  The new object's counter starts at 0.
BridgeCreated ==
  /\ bridge < MaxBridges
  /\ bridge' = bridge + 1
  /\ messageCounter' = 0
  /\ PushTokenEffect(pushToken, isRegistered, bridge + 1)
  /\ UNCHANGED <<now, generated, pushToken, isRegistered, tokenInit>>
  /\ UNCHANGED notLife

\* generateMessageId(): `msg_${++this.messageId}_${Date.now()}`.
generateMessageId ==
  /\ bridge # 0
  /\ Len(generated) < MaxIds
  /\ messageCounter' = messageCounter + 1
  /\ generated' = Append(generated, <<"msg", messageCounter + 1, now>>)
  /\ UNCHANGED <<bridge, now, pushToken, isRegistered, tokenInit, pushSent, nativeInbox>>
  /\ UNCHANGED notLife

\* A millisecond passes.
Tick ==
  /\ now < MaxClock
  /\ now' = now + 1
  /\ UNCHANGED <<bridge, messageCounter, generated, pushToken, isRegistered,
                 tokenInit, pushSent, nativeInbox>>
  /\ UNCHANGED notLife

\* initializePushNotifications comes back from pushNotificationService.initialize
\* and copies the service's state: a token with isRegistered true, or null and
\* false when the device, the build or the permission gave none.
TokenInitialized ==
  /\ tokenInit = "pending"
  /\ tokenInit' = "done"
  /\ \E obtained \in BOOLEAN :
       /\ pushToken' = IF obtained THEN "token" ELSE "null"
       /\ isRegistered' = obtained
       /\ PushTokenEffect(IF obtained THEN "token" ELSE "null", obtained, bridge)
  /\ UNCHANGED <<bridge, messageCounter, now, generated>>
  /\ UNCHANGED notLife

NextBridgeLife ==
  \/ BridgeCreated
  \/ generateMessageId
  \/ Tick
  \/ TokenInitialized
  \/ PageViewChanges
  \/ OnMessage

SpecBridgeLife == Init /\ [][NextBridgeLife]_vars

\* An effect whose dependency changed runs, a promise that can settle settles,
\* and a message queued on the native channel is handled.
SpecBridgeLifeFair ==
  /\ SpecBridgeLife
  /\ WF_vars(BridgeCreated)
  /\ WF_vars(TokenInitialized)
  /\ WF_vars(OnMessage)

\* ----------------------------------------------------------------- readiness
\* handleError's ceiling: if (retryCount < 3).
RetryCeiling == 3

BelowCeilingAlways(count) == TRUE

BelowCeiling(count) == count < RetryCeiling

\* What RootLayout renders: the splash overlay is on screen until the fonts are
\* loaded, and after that for as long as showSplash holds.
OverlayVisible == ~loaded \/ showSplash

\* What WebViewContainer renders: the error view when hasError, the spinner until
\* the mount timer has fired and while isLoading, the WebView otherwise.  The ref
\* holds a page view only while the WebView is rendered.
Rendered == session = "live" /\ ~hasError /\ isWebViewMounted /\ ~isLoading

\* What a 500 ms timer of handleLoadEnd closed over: the isWebViewMounted, hasError
\* and isWebViewReady of the render its handleLoadEnd belongs to.
Closure(m, e, r) == [mounted |-> m, error |-> e, ready |-> r]

\* The guard of the ready effect, and of the timer of handleLoadEnd on its closure
\* (onWebViewReady is always given).
ReadyEffectGuard(m, l, e) == m /\ ~l /\ ~e
SettleGuard(c) == c.mounted /\ ~c.error /\ ~c.ready

\* setShowSplash(false), the only update of showSplash there is.
HideSplashToggles == showSplash' = ~showSplash

HideSplash == showSplash' = FALSE

\* onWebViewReady(): HomeScreen.handleWebViewReady calls the provider's callback,
\* which sets its flag and calls RootLayout.handleWebViewReady: the splash is
\* hidden and the 8-second timer, if its handle is still held, is cleared.  A state
\* that changed renders the provider again, so HomeScreen too, whose
\* handleWebViewReady is a new function on every render.
onWebViewReady(pending) ==
  /\ readyCalls' = IF readyCalls < MaxReadyCalls THEN readyCalls + 1 ELSE readyCalls
  /\ providerReady' = TRUE
  /\ HideSplash
  /\ maxSplashTimeout' = "null"
  /\ maxTimer' = IF maxSplashTimeout # "null" /\ maxTimer = "armed"
                   THEN "cleared" ELSE maxTimer
  /\ rerender' = (session = "live" /\
                  (pending \/ ~providerReady \/ showSplash \/ maxSplashTimeout # "null"))

NotNotified(pending) ==
  /\ rerender' = pending
  /\ UNCHANGED <<readyCalls, providerReady, showSplash, maxSplashTimeout, maxTimer>>

\* The loading effect without its setTimeout: its cleanup clears the timer of
\* the previous render and no new one is started.
LoadingEffectCleanupOnly(l) == IF l # isLoading THEN "cleared" ELSE watchdog

\* The loading effect, with [isLoading] as dependencies: when isLoading changed,
\* the cleanup clears the previous 15-second timer and a new one is started.
LoadingEffect(l) == IF l # isLoading THEN "armed" ELSE watchdog

\* A render of WebViewContainer commits isWebViewMounted, isLoading and hasError,
\* and its effects run: the loading effect arms a new 15-second timer when
\* isLoading changed; the ready effect runs when one of its dependencies changed
\* (the three flags, or onWebViewReady itself) and notifies if its guard holds.
Commit(m, l, e, newCallback, pending) ==
  LET changed == newCallback \/ m # isWebViewMounted \/ l # isLoading \/ e # hasError
  IN /\ isWebViewMounted' = m
     /\ isLoading' = l
     /\ hasError' = e
     /\ watchdog' = LoadingEffect(l)
     /\ IF changed /\ ReadyEffectGuard(m, l, e)
          THEN /\ isWebViewReady' = TRUE
               /\ onWebViewReady(pending)
          ELSE /\ UNCHANGED isWebViewReady
               /\ NotNotified(pending)

\* webViewRef.current?.reload() in a timer or alert callback.
Reload == reload' = IF Rendered THEN "issued" ELSE "dropped"

\* useFonts reports the fonts loaded: RootLayout renders the stack, HomeScreen and
\* WebViewContainer mount, and the mounting and loading effects arm their timers.
FontsLoaded ==
  /\ ~loaded
  /\ loaded' = TRUE
  /\ session' = "live"
  /\ mountTimer' = "armed"
  /\ watchdog' = "armed"
  /\ UNCHANGED <<showSplash, maxSplashTimeout, maxTimer, providerReady, isLoading,
                 hasError, retryCount, isWebViewMounted, isWebViewReady, settleTimers,
                 retryTimers, prompt, readyCalls, reload, rerender>>
  /\ UNCHANGED notReady

\* RootLayout's 8-second timer fires.
MaxSplashTimeoutFires ==
  /\ maxTimer = "armed"
  /\ maxTimer' = "fired"
  /\ HideSplash
  /\ rerender' = (rerender \/ (showSplash /\ session = "live"))
  /\ UNCHANGED <<loaded, maxSplashTimeout, providerReady, session, isLoading, hasError,
                 retryCount, isWebViewMounted, isWebViewReady, mountTimer, watchdog,
                 settleTimers, retryTimers, prompt, readyCalls, reload>>
  /\ UNCHANGED notReady

\* The 100 ms timer of the mounting effect fires.
MountTimerFires ==
  /\ mountTimer = "armed"
  /\ mountTimer' = "fired"
  /\ Commit(TRUE, isLoading, hasError, FALSE, rerender)
  /\ UNCHANGED <<loaded, session, retryCount, settleTimers, retryTimers, prompt, reload>>
  /\ UNCHANGED notReady

\* The 15-second timer of the loading effect fires: if (isLoading), on the
\* isLoading of the render that armed it.
WatchdogFires ==
  /\ watchdog = "armed"
  /\ IF isLoading
       THEN Commit(isWebViewMounted, FALSE, TRUE, FALSE, rerender)
       ELSE /\ watchdog' = "spent"
            /\ UNCHANGED <<isWebViewMounted, isLoading, hasError, isWebViewReady>>
            /\ NotNotified(rerender)
  /\ UNCHANGED <<loaded, session, retryCount, mountTimer, settleTimers, retryTimers,
                 prompt, reload>>
  /\ UNCHANGED notReady

\* The page view reports that a load started.
handleLoadStart ==
  /\ session = "live"
  /\ Commit(isWebViewMounted, TRUE, FALSE, FALSE, rerender)
  /\ UNCHANGED <<loaded, session, retryCount, mountTimer, settleTimers, retryTimers,
                 prompt, reload>>
  /\ UNCHANGED notReady

\* The page view reports that a load ended: isLoading is cleared and a 500 ms
\* timer is started, which no one keeps a handle of.
handleLoadEnd ==
  /\ session = "live"
  /\ LET timer == Closure(isWebViewMounted, hasError, isWebViewReady)
     IN /\ timer \in settleTimers \/ Cardinality(settleTimers) < MaxSettleTimers
        /\ settleTimers' = settleTimers \cup {timer}
  /\ Commit(isWebViewMounted, FALSE, hasError, FALSE, rerender)
  /\ UNCHANGED <<loaded, session, retryCount, mountTimer, retryTimers, prompt, reload>>
  /\ UNCHANGED notReady

\* The page view reports its navigation state: setIsLoading(navState.loading).
handleNavigationStateChange ==
  /\ session = "live"
  /\ \E loading \in BOOLEAN : Commit(isWebViewMounted, loading, hasError, FALSE, rerender)
  /\ UNCHANGED <<loaded, session, retryCount, mountTimer, settleTimers, retryTimers,
                 prompt, reload>>
  /\ UNCHANGED notReady

\* The page view reports a load error: below the ceiling a 2-second timer is
\* started, at the ceiling the alert is shown.
handleError ==
  /\ session = "live"
  /\ IF BelowCeiling(retryCount)
       THEN /\ retryTimers < MaxRetryTimers
            /\ retryTimers' = retryTimers + 1
            /\ UNCHANGED prompt
       ELSE /\ prompt' = TRUE
            /\ UNCHANGED retryTimers
  /\ Commit(isWebViewMounted, FALSE, TRUE, FALSE, rerender)
  /\ UNCHANGED <<loaded, session, retryCount, mountTimer, settleTimers, reload>>
  /\ UNCHANGED notReady

\* The page view reports an HTTP error: the two flags, no retry.
onHttpError ==
  /\ session = "live"
  /\ Commit(isWebViewMounted, FALSE, TRUE, FALSE, rerender)
  /\ UNCHANGED <<loaded, session, retryCount, mountTimer, settleTimers, retryTimers,
                 prompt, reload>>
  /\ UNCHANGED notReady

\* A 2-second timer of handleError fires.  After the unmount its state updates
\* are lost, and the ref is null.
RetryTimerFires ==
  /\ retryTimers > 0
  /\ retryTimers' = retryTimers - 1
  /\ Reload
  /\ IF session = "live"
       THEN /\ retryCount' = retryCount + 1
            /\ Commit(isWebViewMounted, TRUE, FALSE, FALSE, rerender)
       ELSE /\ UNCHANGED <<retryCount, isWebViewMounted, isLoading, hasError, watchdog,
                           isWebViewReady>>
            /\ NotNotified(rerender)
  /\ UNCHANGED <<loaded, session, mountTimer, settleTimers, prompt>>
  /\ UNCHANGED notReady

\* The alert is answered: Retry, or Cancel.
AlertRetry ==
  /\ prompt
  /\ prompt' = FALSE
  /\ Reload
  /\ IF session = "live"
       THEN /\ retryCount' = 0
            /\ Commit(isWebViewMounted, TRUE, FALSE, FALSE, rerender)
       ELSE /\ UNCHANGED <<retryCount, isWebViewMounted, isLoading, hasError, watchdog,
                           isWebViewReady>>
            /\ NotNotified(rerender)
  /\ UNCHANGED <<loaded, session, mountTimer, settleTimers, retryTimers>>
  /\ UNCHANGED notReady

AlertCancel ==
  /\ prompt
  /\ prompt' = FALSE
  /\ UNCHANGED <<rootVars, session, isLoading, hasError, retryCount, isWebViewMounted,
                 isWebViewReady, mountTimer, watchdog, settleTimers, retryTimers,
                 readyCalls, reload, rerender>>
  /\ UNCHANGED notReady

\* A 500 ms timer of handleLoadEnd fires, and tests what it closed over.
SettleTimerFires ==
  /\ \E timer \in settleTimers :
       /\ settleTimers' = settleTimers \ {timer}
       /\ IF SettleGuard(timer)
            THEN /\ isWebViewReady' = (isWebViewReady \/ session = "live")
                 /\ onWebViewReady(rerender)
            ELSE /\ UNCHANGED isWebViewReady
                 /\ NotNotified(rerender)
  /\ UNCHANGED <<loaded, session, isLoading, hasError, retryCount, isWebViewMounted,
                 mountTimer, watchdog, retryTimers, prompt, reload>>
  /\ UNCHANGED notReady

\* HomeScreen renders again and hands WebViewContainer a new onWebViewReady.
HomeScreenRerenders ==
  /\ session = "live"
  /\ rerender
  /\ Commit(isWebViewMounted, isLoading, hasError, TRUE, FALSE)
  /\ UNCHANGED <<loaded, session, retryCount, mountTimer, settleTimers, retryTimers,
                 prompt, reload>>
  /\ UNCHANGED notReady

\* WebViewContainer unmounts: the cleanups of the mounting and loading effects
\* clear their timers; the timers of handleLoadEnd and handleError stay.
Unmount ==
  /\ session = "live"
  /\ session' = "gone"
  /\ mountTimer' = IF mountTimer = "armed" THEN "cleared" ELSE mountTimer
  /\ watchdog' = IF watchdog = "armed" THEN "cleared" ELSE watchdog
  /\ rerender' = FALSE
  /\ UNCHANGED <<rootVars, isLoading, hasError, retryCount, isWebViewMounted,
                 isWebViewReady, settleTimers, retryTimers, prompt, readyCalls, reload>>
  /\ UNCHANGED notReady

NextReady ==
  \/ FontsLoaded
  \/ MaxSplashTimeoutFires
  \/ MountTimerFires
  \/ WatchdogFires
  \/ handleLoadStart
  \/ handleLoadEnd
  \/ handleNavigationStateChange
  \/ handleError
  \/ onHttpError
  \/ RetryTimerFires
  \/ AlertRetry
  \/ AlertCancel
  \/ SettleTimerFires
  \/ HomeScreenRerenders
  \/ Unmount

SpecReady == Init /\ [][NextReady]_vars

\* A timer that is set and not cleared fires.
SpecReadyFair == SpecReady /\ WF_vars(WatchdogFires)

\* -------------------------------------------------------------------- properties
\* The envelope sendToWebView was called with, without the log's own field.
Sent(r, i) == Message(sent[r][i].type, sent[r][i].data, sent[r][i].id)

\* Request r was made through one of the page's promise-returning functions.
PageBuilt(r) == PageMessageId(r) \in listeners

\* C1: a catalog request built by the page-side functions is answered, once its
\* handler has finished, by exactly one sendToWebView call, and that response
\* carries the id of the request envelope.
C1_OneResponseWithRequestId ==
  \A r \in Reqs :
    (PageBuilt(r) /\ envelope[r].type \in Catalog) =>
      /\ Len(sent[r]) <= 1
      /\ pc[r] = "done" => Len(sent[r]) = 1
      /\ \A i \in 1..Len(sent[r]) : sent[r][i].id = envelope[r].id

\* C2: every envelope sendToWebView is called with while the page view exists
\* has been dispatched in the page as a message event, and nothing of it is
\* queued on the native message-received channel.
C2_DeliveredToPage ==
  \A r \in Reqs : \A i \in 1..Len(sent[r]) :
    sent[r][i].injected =>
      /\ Sent(r, i) \in pageEvents
      /\ \A k \in 1..Len(nativeInbox) : nativeInbox[k] # StringOfObject

\* C3: an envelope of an unregistered type is answered by exactly one ERROR
\* envelope that echoes the type and carries the envelope's id; nothing is sent
\* before the dispatch and the dispatch ends normally.
C3_UnknownTypeAnswered ==
  \A r \in Reqs :
    envelope[r].type \in Unregistered =>
      /\ pc[r] \in {"posted", "done"}
      /\ pc[r] = "posted" => sent[r] = <<>>
      /\ pc[r] = "done" =>
           /\ Len(sent[r]) = 1
           /\ Sent(r, 1) = Message("ERROR",
                                   ErrorData("Unknown message type", envelope[r].type),
                                   envelope[r].id)

C3_Witness ==
  \E r \in Reqs :
    /\ envelope[r].type = "BRIDGE_READY"
    /\ pc[r] = "done"
    /\ Len(sent[r]) = 1
    /\ sent[r][1].type = "ERROR"
    /\ sent[r][1].id = PageMessageId(r)

\* C4: a request whose handler threw or whose native operation failed is answered
\* by exactly one response with success=false and an error message, carrying the
\* id of the request.
C4_FailureAnsweredWithRequestId ==
  \A r \in Reqs :
    (\E i \in 1..Len(sent[r]) : sent[r][i].data.error = "error.message") =>
      /\ Len(sent[r]) = 1
      /\ sent[r][1].data.success = "false"
      /\ sent[r][1].id = envelope[r].id

\* C5: requestPermissions(P) returns true exactly when the native side answered
\* 'granted' for every permission in P, whatever the order of the answers.
C5_GrantedIffAllGranted ==
  permissionCall.returned # Undefined =>
    (permissionCall.returned = "true"
       <=> \A kind \in permissionCall.asked :
             <<kind, "granted">> \in permissionCall.answers)

C5_Witness ==
  /\ permissionCall.asked = {"camera", "location"}
  /\ permissionCall.answers = {<<"camera", "granted">>, <<"location", "denied">>}
  /\ permissionCall.returned = "false"

\* C6: requestPermissions(P) never returns true when P holds a kind the gate
\* does not know, and returns false when a native permission request throws.
C6_FailClosed ==
  /\ permissionCall.asked \ KnownKinds # {} => permissionCall.returned # "true"
  /\ (\E kind \in permissionCall.asked : <<kind, "throws">> \in permissionCall.answers)
       => permissionCall.returned = "false"

C6_Witness ==
  /\ permissionCall.asked = {"camera", "notifications"}
  /\ permissionCall.answers = {<<"camera", "granted">>}
  /\ permissionCall.returned = "false"

\* C7: a permission-gated handler asks the gate for its own permission, starts
\* its native capability only after the gate returned true for that request, and
\* when the gate returned false starts none and answers permission denied.
C7_CapabilityBehindGate ==
  \A r \in Reqs :
    envelope[r].type \in Gated =>
      /\ invoked[r] # {} => gate[r].returned = "true"
      /\ gate[r].asked \in {{}, {RequiredPermission(envelope[r].type)}}
      /\ gate[r].returned = "false" =>
           /\ invoked[r] = {}
           /\ Len(sent[r]) = 1
           /\ sent[r][1].type = ResultType(envelope[r].type)
           /\ sent[r][1].data = ResultData("false", DeniedError(envelope[r].type))

C7_Witness ==
  /\ \E r \in Reqs :
       /\ envelope[r].type = "TAKE_PHOTO"
       /\ gate[r].answers = {<<"camera", "denied">>}
       /\ invoked[r] = {}
       /\ Len(sent[r]) = 1
       /\ sent[r][1].data.error = "Camera permission denied"
  /\ \E r \in Reqs :
       /\ envelope[r].type = "SAVE_TO_GALLERY"
       /\ gate[r].answers = {<<"media_library", "granted">>}
       /\ invoked[r] = {"createAssetAsync"}

\* A start call comes back from its permission request while the recorder is
\* Recording: the second start, with no stop since the first.
SecondStartResumes(c) == mpc[c] = "gate" /\ mpc'[c] # "gate" /\ isRecording

\* The recorder stays Recording with the recording it had.
RecorderUntouched ==
  /\ isRecording' = isRecording
  /\ audioRecording' = audioRecording
  /\ recorder' = recorder

\* C8, as stated: a start that finds the recorder Recording fails with 'Already
\* recording' and leaves the recorder Recording with the first recording.
C8_SecondStartAlreadyRecording ==
  [][\A c \in Calls :
       SecondStartResumes(c) =>
         /\ mpc'[c] = "done"
         /\ result'[c] = MediaResult("false", "Already recording", Null)
         /\ RecorderUntouched]_vars

\* C8, as the code has it: a start that finds the recorder Recording fails, with
\* 'Already recording' when its microphone request was granted and with
\* 'Microphone permission denied' when that request was denied or threw, and
\* leaves the recorder Recording with the first recording.
C8_SecondStartFails ==
  [][\A c \in Calls :
       SecondStartResumes(c) =>
         /\ mpc'[c] = "done"
         /\ result'[c] =
              MediaResult("false",
                          IF <<"microphone", "granted">> \in mgate'[c].answers
                            THEN "Already recording"
                            ELSE "Microphone permission denied",
                          Null)
         /\ RecorderUntouched]_vars

C8_Witness ==
  \E c, d \in Calls :
    /\ c < d
    /\ call[c] = "start" /\ result[c].success = "true"
    /\ call[d] = "start" /\ result[d].error = "Already recording"
    /\ \A e \in Calls : call[e] \in {"start", "none"}
    /\ isRecording
    /\ audioRecording = {c}
    /\ recorder[c] = "recording"

\* C9: a stop called while the recorder is Idle returns 'No active recording' at
\* once and leaves the recorder as it was.
C9_StopWhileIdle ==
  [][\A c \in Calls :
       (mpc[c] = "uncalled" /\ call'[c] = "stop" /\ ~isRecording) =>
         /\ mpc'[c] = "done"
         /\ result'[c] = MediaResult("false", "No active recording", Null)
         /\ ~isRecording'
         /\ audioRecording' = audioRecording
         /\ recorder' = recorder]_vars

\* A stop refused after a start that failed in prepare or start and left its
\* recording object behind: only the flag says Idle.
C9_Witness ==
  \E c \in Calls :
    /\ call[c] = "stop"
    /\ result[c].error = "No active recording"
    /\ \A d \in Calls : d < c =>
         /\ call[d] = "start"
         /\ mpc[d] = "done"
         /\ result[d] = MediaResult("false", "error.message", Null)
    /\ c > 1
    /\ audioRecording # Null
    /\ ~isRecording

\* C10: in every reachable state at most one recording is active, no two starts
\* run past the guard side by side, and of the starts made with no stop in
\* between at most one has succeeded.
C10_OneActiveRecording ==
  /\ Cardinality({c \in Calls : recorder[c] = "recording"}) <= 1
  /\ Cardinality({c \in Calls : mpc[c] \in {"preparing", "starting"}}) <= 1
  /\ (\A c \in Calls : call[c] \in {"start", "none"}) =>
       Cardinality({c \in Calls : result[c].success = "true"}) <= 1

C12_MaxWaitHidesOverlay == maxTimer = "fired" => ~OverlayVisible

C16_PageViewOnScreenAfterMount ==
  (/\ session = "live"
   /\ isWebViewMounted /\ isLoading /\ ~hasError
   /\ readyCalls = 0 /\ retryCount = 0 /\ retryTimers = 0
   /\ maxTimer = "armed" /\ watchdog = "armed") => Rendered

Pending(r) == PageMessageId(r) \in pageListeners

\* C17: a message event that carries the id of no waiting call (an id never
\* issued, the id of a call already resolved, no id, or no JSON at all) resolves
\* nothing and removes no listener; whatever event arrives, a waiting call whose
\* id it does not carry stays waiting, and one whose id it carries is resolved
\* with that very event.
C17_UnmatchedResponseDropped ==
  [][\A event \in PageEventSet : WindowMessage(event) =>
       \A r \in Reqs :
         IF Pending(r) /\ event.text = "json" /\ event.id = PageMessageId(r)
           THEN resolved'[r] = Append(resolved[r], event)
           ELSE /\ resolved'[r] = resolved[r]
                /\ Pending(r)' = Pending(r)]_vars

\* One call resolved by its own response and another still waiting, after a
\* response with an id never issued and a second response with the id of the
\* resolved call have been dispatched.
C17_Witness ==
  \E r, q \in Reqs :
    /\ Len(resolved[r]) = 1
    /\ Pending(q) /\ resolved[q] = <<>>
    /\ \E late \in dispatched :
         late.text = "json" /\ late.id = PageMessageId(r) /\ late # resolved[r][1]
    /\ \E stray \in dispatched : stray.text = "json" /\ stray.id = NeverIssued

\* C18: the promise of a page-side call is resolved at most once, only by a
\* message event that carries its id, and its listener is gone once it is.
C18_ResolvedAtMostOnce ==
  \A r \in Reqs :
    /\ Len(resolved[r]) <= 1
    /\ \A i \in 1..Len(resolved[r]) :
         resolved[r][i].text = "json" /\ resolved[r][i].id = PageMessageId(r)
    /\ resolved[r] # <<>> => ~Pending(r)

\* A call resolved once although two different responses with its id and one
\* with the other call's id were dispatched.
C18_Witness ==
  \E r \in Reqs :
    /\ Len(resolved[r]) = 1
    /\ Cardinality({e \in dispatched : e.text = "json" /\ e.id = PageMessageId(r)}) = 2
    /\ \E q \in Reqs \ {r} : \E e \in dispatched : e.id = PageMessageId(q)

\* The handler of a request has touched nothing native and asked for no permission.
NoHandlerRan(r) == invoked[r] = {} /\ gate[r] = NoGate /\ recording[r] = "none"

C21_OverlayStaysDismissed ==
  [][/\ ~showSplash => ~showSplash'
     /\ ~OverlayVisible => ~OverlayVisible']_vars

\* The overlay is gone, and after that the page was declared ready again, an
\* error was flagged and a retry has run.
C21_Witness ==
  /\ ~OverlayVisible
  /\ readyCalls > 1
  /\ retryCount > 0
  /\ hasError
  /\ maxTimer = "fired"
\* C22: a USER_AUTH envelope from the page causes no sendToWebView call, whether
\* the device-registration update succeeds or fails.
C22_UserAuthUnanswered ==
  \A r \in Reqs : envelope[r].type = "USER_AUTH" => sent[r] = <<>>
\* A PUSH_TOKEN envelope has been dispatched as a message event in the page.
PushTokenInPage == \E event \in pageEvents : event.type = "PUSH_TOKEN"

\* C23: once a push token is obtained and registered, a PUSH_TOKEN envelope is
\* eventually dispatched in the page.
C23_PushTokenDelivered ==
  (pushToken # "null" /\ isRegistered) ~> PushTokenInPage

Overtook(b, a) ==
  /\ a < b
  /\ pc[a] \in {"gate", "native", "native2"}
  /\ sent[a] = <<>>
  /\ pc[b] = "done"
  /\ Len(sent[b]) > 0

\* C25: a response sent for a later request of the page's functions while an
\* earlier handler is suspended carries the id of its own request.
C25_OvertakingResponseOwnId ==
  \A a, b \in Reqs :
    (Overtook(b, a) /\ PageBuilt(b)) => sent[b][1].id = envelope[b].id
\* C26: the devices table holds at most one row per (device_id, platform), and a
\* well-formed register-device request that has finished succeeded and returned
\* the id of the one row of its pair.
C26_RegisterDeviceUpserts ==
  /\ \A row, other \in devices : PairOf(row) = PairOf(other) => row = other
  /\ \A q \in Registrations :
       (registration[q].at = "done" /\ registration[q].token # "") =>
         /\ registration[q].response.success = "true"
         /\ \E row \in devices : /\ PairOf(row) = registration[q].pair
                                  /\ row.id = registration[q].response.deviceId
\* The column the first filter present in the body compares, and its value.
FilterOrder == <<"userId", "userEmail", "deviceId", "platform">>
FilterColumn == <<"user_id", "user_email", "device_id", "platform">>
FiltersPresent(body) == {i \in 1..4 : body[FilterOrder[i]] # Undefined}
FirstPresent(body) ==
  CHOOSE i \in FiltersPresent(body) : \A k \in FiltersPresent(body) : i <= k

\* The devices the claim says a request targets.
Targeted(table, body) ==
  {row \in table :
     /\ row.is_active
     /\ FiltersPresent(body) # {} =>
          row[FilterColumn[FirstPresent(body)]] = body[FilterOrder[FirstPresent(body)]]}

\* C27: the messages pushed are those of the active devices selected by the
\* first filter present (all active devices when none is); a success response
\* counts them; no message goes to an inactive device; with no device selected
\* the response is an error and nothing is pushed.
C27_TargetsFirstFilterActive ==
  LET body == notification.body
      expected == Targeted(devices, body)
  IN /\ notification.messages \in {{}, {ExpoMessage(row) : row \in expected}}
     /\ notification.at = "push" => notification.devices = expected
     /\ notification.response.success = "true" =>
          /\ notification.messages = {ExpoMessage(row) : row \in expected}
          /\ notification.response.deviceCount = Cardinality(expected)
          /\ expected # {}
     /\ (notification.at = "done" /\ expected = {}) =>
          /\ notification.response.success = "false"
          /\ notification.messages = {}

\* A request with userId and userEmail both given found one active device of
\* that user, an inactive one of that user, and an active one of another user
\* with the same e-mail: one device was pushed to and counted.
C27_Witness ==
  /\ notification.at = "done"
  /\ notification.body.userId = "user-1"
  /\ notification.body.userEmail = "a@example.org"
  /\ notification.response = NotifyResponse(200, 1)
  /\ Cardinality(notification.messages) = 1
  /\ \E row \in devices : row.user_id = "user-1" /\ ~row.is_active
  /\ \E row \in devices : row.user_id = "user-2" /\ row.is_active
\* C28: in every state in which the error view is shown, a reload is scheduled
\* or the Retry prompt is up.
C28_ErrorStateHasWayOut ==
  (session = "live" /\ hasError) => (retryTimers > 0 \/ prompt)

C30_OneSuccessfulStop ==
  \A c, d \in Calls :
    (/\ c # d
     /\ call[c] = "stop" /\ call[d] = "stop"
     /\ result[c].success = "true" /\ result[d].success = "true")
      => result[c].uri # result[d].uri
\* No MediaService call is suspended at an await.
MediaQuiescent == \A c \in Calls : mpc[c] \in {"uncalled", "done"}

\* C31: when no call is in flight, isRecording implies that audioRecording
\* refers to a recording that was started and has not been stopped.
C31_RecordingFlagMeansRecording ==
  (MediaQuiescent /\ isRecording) =>
    /\ audioRecording # Null
    /\ \A t \in audioRecording : recorder[t] = "recording"
\* Call c comes back from an awaited recorder method and returns.
ReturnsFromAwait(c) ==
  /\ call[c] \in {"start", "stop"}
  /\ mpc[c] \in {"preparing", "starting", "stopping", "status"}
  /\ mpc'[c] = "done"

EchoTaken ==
  /\ nativeInbox # <<>>
  /\ Head(nativeInbox) = StringOfObject
  /\ nativeInbox' = Tail(nativeInbox)

\* C34: what sendToWebView emitted is never dispatched to a handler when it comes
\* back on the native message channel, so it causes no further response, and a
\* request causes at most one outbound envelope.
C34_ResponsesNotDispatched ==
  [][/\ EchoTaken => UNCHANGED <<pc, gate, invoked, recording, sent>>
     /\ \A r \in Reqs : Len(sent'[r]) <= 1]_vars

\* A response was injected and what its script posted back has been taken.
C34_Witness ==
  /\ nativeInbox = <<>>
  /\ \E r \in Reqs :
       /\ pc[r] = "done"
       /\ Len(sent[r]) = 1
       /\ sent[r][1].injected
       /\ sent[r][1].type = "ERROR"

\* sendToWebView is called for request r in this step.
SendsFor(r) == Len(sent'[r]) > Len(sent[r])

\* Nothing was put on the native message channel in this step.
NothingPosted ==
  \/ nativeInbox' = nativeInbox
  \/ nativeInbox # <<>> /\ nativeInbox' = Tail(nativeInbox)

\* C36: a sendToWebView call made while the page view reference is null injects
\* nothing and dispatches nothing in the page, and when the reference is set
\* again nothing of it is delivered.
C36_NullRefSendIsLost ==
  [][/\ \A r \in Reqs :
          (SendsFor(r) /\ ~webViewRef) =>
            /\ ~sent'[r][Len(sent'[r])].injected
            /\ NothingPosted
            /\ UNCHANGED <<pageEvents, listeners, webViewRef>>
     /\ webViewRef' # webViewRef =>
          UNCHANGED <<sent, nativeInbox, pageEvents, listeners>>]_vars

\* A response was produced without a page view and the page view is back: the
\* response is nowhere.
C36_Witness ==
  /\ webViewRef
  /\ nativeInbox = <<>>
  /\ pageEvents = {}
  /\ \E r \in Reqs :
       /\ pc[r] = "done"
       /\ Len(sent[r]) = 1
       /\ ~sent[r][1].injected

\* C35: while WebViewContainer is mounted, isLoading does not stay true for
\* ever: it becomes false, at the latest when the 15-second timer fires.
C35_LoadingEnds ==
  (session = "live" /\ isLoading) ~> (~isLoading \/ session # "live")

\* The 15-second timer ended a loading episode: isLoading is false and the error
\* flag is set with no retry under way, which no other handler leaves behind.
C35_Witness ==
  /\ session = "live"
  /\ ~isLoading
  /\ hasError
  /\ retryCount = 0
  /\ retryTimers = 0
  /\ ~prompt
  /\ watchdog = "armed"

\* Registration q, which carries no user, writes in this step.
AnonymousWrite(q) ==
  /\ registration[q].at = "write"
  /\ registration'[q].at = "done"
  /\ registration[q].user.user_id = SqlNull

\* C37: a register-device request without user information leaves user_id and
\* user_email of every row that is already in the table as they were.
C37_AnonymousKeepsUser ==
  [][\A q \in Registrations :
       AnonymousWrite(q) =>
         \A row \in devices :
           \E after \in devices' :
             /\ after.id = row.id
             /\ after.user_id = row.user_id
             /\ after.user_email = row.user_email]_vars

\* Both sides have reported on the download.
BothReported ==
  /\ download.bridgeResult # NoDownloadResult
  /\ download.serviceResult # NoDownloadResult

\* C38: for the same url, file name and server response, the bridge's handler
\* and downloadFile report the same success, and the bridge reports success
\* exactly when the download resolved with status 200.
C38_DownloadsAgree ==
  BothReported =>
    /\ download.bridgeResult.success = download.serviceResult.success
    /\ download.bridgeResult.success = "true" <=>
         (~download.response.throws /\ download.response.status = 200)
====
